---- MODULE Spec2Model ----
(***************************************************************************)
(* Model of AppComponent (src/src/app/app.component.ts): a draggable grid  *)
(* element that snaps to the row/column track under its centre on drop.    *)
(*                                                                         *)
(* Two specifications:                                                     *)
(*   Spec        the component as an event-driven state machine            *)
(*               (lifecycle hooks, drag handlers, frame loop, debounce);   *)
(*   ResolveSpec the index resolution (createCoordsArray, the probe in     *)
(*               slot 0, intersectArrayIndex) applied to arbitrary ordered *)
(*               non-overlapping track boxes and query points.             *)
(***************************************************************************)
EXTENDS Integers, Sequences, FiniteSets, TLC

\* ------------------------------------------------------------------ bounds
\* Number of row tracks / column tracks (30 and 6 in the source; the track
\* count is the size parameter of the model).
maxRowIndex == 3
maxColIndex == 2
\* The debounce interval (500 ms in the source) measured in clock ticks.
DebounceTicks == 2
\* Most resize notifications counted in one burst.
MaxBurst == 2
\* ResolveSpec: most tracks, largest coordinate along the axis.
MaxTracks == 3
MaxCoord == 4

VARIABLES
    phase,              \* "constructed" | "live" | "destroyed" (lifecycle)
    dragEnded,          \* AppComponent.dragEnded
    pos,                \* AppComponent.pos
    index,              \* AppComponent.index
    readyToAnimation,   \* AppComponent.readyToAnimation
    rowsCoordsMap,      \* AppComponent.rowsCoordsMap
    colsCoordsMap,      \* AppComponent.colsCoordsMap
    frames,             \* number of registered requestAnimationFrame callbacks
    observing,          \* resizeObserver is observing the container
    timer,              \* debounceTime: ticks left until emission, 0 = idle
    geom,               \* the live layout: container width factor
    dragging,           \* a drag gesture is in progress (gesture provider)
    lastOp,             \* the handler that ran last
    locals,             \* what that handler computed (dragDropped: its locals)
    fault,              \* that handler ended in an uncaught TypeError
    burst,              \* resize notifications since the last re-measurement
    missed,             \* some drop so far did not resolve to a track
    quiet,              \* ticks waited since the last resize notification
    q_pc, q_axis, q_ids, q_map, q_point, q_out   \* ResolveSpec

wvars == <<phase, dragEnded, pos, index, readyToAnimation, rowsCoordsMap,
           colsCoordsMap, frames, observing, timer, geom, dragging, lastOp,
           locals, fault, burst, missed, quiet>>
qvars == <<q_pc, q_axis, q_ids, q_map, q_point, q_out>>
vars == <<wvars, qvars>>

\* ------------------------------------------------- JavaScript numbers
\* The index fields and the resolver's result are JS numbers that can leave
\* the integers: Math.min() of nothing is Infinity, Infinity - Infinity is NaN.
Fin(n) == [kind |-> "fin", val |-> n]
Infinity == [kind |-> "inf", val |-> 0]
NegInfinity == [kind |-> "ninf", val |-> 0]
NaN == [kind |-> "nan", val |-> 0]

IsFin(a) == a.kind = "fin"

NumNeg(a) ==
    CASE a.kind = "fin" -> Fin(0 - a.val)
      [] a.kind = "inf" -> NegInfinity
      [] a.kind = "ninf" -> Infinity
      [] OTHER -> NaN

NumAdd(a, b) ==
    CASE a.kind = "nan" \/ b.kind = "nan" -> NaN
      [] a.kind = "fin" /\ b.kind = "fin" -> Fin(a.val + b.val)
      [] a.kind = "fin" -> b
      [] b.kind = "fin" -> a
      [] a.kind = b.kind -> a
      [] OTHER -> NaN

NumSub(a, b) == NumAdd(a, NumNeg(b))

Min(S) == CHOOSE m \in S : \A x \in S : m <= x

\* Math.min(...xs): Infinity when there is no argument.
MathMin(S) == IF S = {} THEN Infinity ELSE Fin(Min(S))

Range(s) == {s[i] : i \in DOMAIN s}

\* ------------------------------------------------------ track identifiers
rows == [i \in 1..maxRowIndex |-> <<"rowid", i>>]
cols == [i \in 1..maxColIndex |-> <<"colid", i>>]

\* ------------------------------------------------------------ geometry
\* The live layout the component measures. Row k occupies y in
\* [10(k-1), 10k]; column k occupies x in [ColLeft(g,k), ColLeft(g,k+1)],
\* widths 5g, 10g, 15g, ...; every track spans the grid on the other axis.
\* g is the container's width factor, changed by a resize.
Layouts == {1, 2}
RowTop(k) == 10 * (k - 1)
ColLeft(g, k) == g * 5 * ((k * (k - 1)) \div 2)
GridRight(g) == ColLeft(g, maxColIndex + 1)
GridBottom == RowTop(maxRowIndex + 1)

\* el.getBoundingClientRect() of the track element with this id, as
\* [left, top, right, bottom].
getBoundingClientRect(id, g) ==
    IF id[1] = "rowid"
    THEN <<0, RowTop(id[2]), GridRight(g), RowTop(id[2] + 1)>>
    ELSE <<ColLeft(g, id[2]), 0, ColLeft(g, id[2] + 1), GridBottom>>

\* ------------------------------------------------------------ resolver
\* box-intersect: a box [lox, loy, hix, hiy] is empty when some lo <= hi
\* fails (a NaN coordinate makes it fail); empty boxes are skipped.
boxEmpty(b) == ~(b[1] <= b[3] /\ b[2] <= b[4])

\* Closed boxes: touching boxes intersect.
boxOverlap(a, b) ==
    /\ a[1] <= b[3] /\ b[1] <= a[3]
    /\ a[2] <= b[4] /\ b[2] <= a[4]

\* boxIntersect(boxes): the pairs of 0-based positions of intersecting boxes.
boxIntersect(boxes) ==
    {<<i - 1, j - 1>> : <<i, j>> \in
        {p \in (DOMAIN boxes) \X (DOMAIN boxes) :
            /\ p[1] < p[2]
            /\ ~boxEmpty(boxes[p[1]]) /\ ~boxEmpty(boxes[p[2]])
            /\ boxOverlap(boxes[p[1]], boxes[p[2]])}}

createCoordsArray_noSlot(idArray, coordsMap) ==
    [i \in 1..Len(idArray) |-> coordsMap[idArray[i]]]

\* [[0,0,0,0]].concat(idArray.map(id => coordsMap.get(id)))
createCoordsArray(idArray, coordsMap) ==
    <<(<<0, 0, 0, 0>>)>> \o [i \in 1..Len(idArray) |-> coordsMap[idArray[i]]]

intersectArrayIndex_noFilter(coordsArray) ==
    LET pairs == boxIntersect(coordsArray)
        flat == {p[1] : p \in pairs} \cup {p[2] : p \in pairs}
    IN  MathMin(flat \ {0})

intersectArrayIndex_keepZero(coordsArray) ==
    LET pairs == boxIntersect(coordsArray)
        kept == {p \in pairs : p[1] = 0 \/ p[2] = 0}
        flat == {p[1] : p \in kept} \cup {p[2] : p \in kept}
    IN  MathMin(flat)

\* Math.min over the positions paired with position 0.
intersectArrayIndex(coordsArray) ==
    LET pairs == boxIntersect(coordsArray)
        \* .filter(x => x.find(y => y === 0) !== void (0))
        kept == {p \in pairs : p[1] = 0 \/ p[2] = 0}
        \* .reduce((acc, x) => acc.concat(x), [])
        flat == {p[1] : p \in kept} \cup {p[2] : p \in kept}
        \* .filter(x => x !== 0)
        nonzero == flat \ {0}
    IN  MathMin(nonzero)

\* rowsAxisCoords[0] = colsAxisCoords[0] = centerCoords
withProbe(coordsArray, centerCoords) ==
    [coordsArray EXCEPT ![1] = centerCoords]

\* ------------------------------------------------------ coordinate cache
updateCoordsMap_accumulate(idArray, coordsMap, g) ==
    [id \in (DOMAIN coordsMap) \cup Range(idArray) |->
        IF id \in Range(idArray)
        THEN IF id \in DOMAIN coordsMap
             THEN [j \in 1..4 |-> coordsMap[id][j] + getBoundingClientRect(id, g)[j]]
             ELSE getBoundingClientRect(id, g)
        ELSE coordsMap[id]]

\* for (const id of idArray) coordsMap.set(id, [left, top, right, bottom])
updateCoordsMap(idArray, coordsMap, g) ==
    [id \in (DOMAIN coordsMap) \cup Range(idArray) |->
        IF id \in Range(idArray) THEN getBoundingClientRect(id, g)
        ELSE coordsMap[id]]

calcRowsAxisCoords(rmap, g) == updateCoordsMap(rows, rmap, g)

calcColsAxisCoords(cmap, g) == updateCoordsMap(cols, cmap, g)

calcAxisCoords(rmap, cmap, g) ==
    [rows |-> calcRowsAxisCoords(rmap, g), cols |-> calcColsAxisCoords(cmap, g)]

\* ------------------------------------------------------- drag reconciler
\* The centre is a fraction: (left + right) * .5 + pos.x and
\* (bottom - top) / rowSpan * .5 + top + pos.y. It is kept exactly, as the
\* integer pair scale * centre with scale = 2 * |rowSpan|; the cached boxes
\* are multiplied by the same scale before they are intersected with it,
\* which leaves every comparison box-intersect makes unchanged.
\* With rowSpan 0 or NaN the vertical centre is +-Infinity or NaN: a probe
\* that intersects no box, given here as an empty box.
NoProbe == <<1, 1, 0, 0>>

calcCenter_noTop(el, idx, p) ==
    LET left == el[1]
        top == el[2]
        right == el[3]
        bottom == el[4]
        rowSpan == NumSub(idx.rowEnd, idx.rowStart)
        ok == IsFin(rowSpan) /\ rowSpan.val # 0
        a == IF rowSpan.val < 0 THEN 0 - rowSpan.val ELSE rowSpan.val
        sg == IF rowSpan.val < 0 THEN 0 - 1 ELSE 1
        horizontalCenter == a * (left + right) + 2 * a * p.x
        verticalCenter == sg * (bottom - top) + 2 * a * p.y
    IN  [left |-> left, top |-> top,
         scale |-> IF ok THEN 2 * a ELSE 1,
         center |-> IF ok
                    THEN <<horizontalCenter, verticalCenter,
                           horizontalCenter, verticalCenter>>
                    ELSE NoProbe]

calcCenter(el, idx, p) ==
    LET left == el[1]
        top == el[2]
        right == el[3]
        bottom == el[4]
        rowSpan == NumSub(idx.rowEnd, idx.rowStart)
        ok == IsFin(rowSpan) /\ rowSpan.val # 0
        a == IF rowSpan.val < 0 THEN 0 - rowSpan.val ELSE rowSpan.val
        sg == IF rowSpan.val < 0 THEN 0 - 1 ELSE 1
        horizontalCenter == a * (left + right) + 2 * a * p.x
        verticalCenter == sg * (bottom - top) + 2 * a * (top + p.y)
    IN  [left |-> left, top |-> top,
         scale |-> IF ok THEN 2 * a ELSE 1,
         center |-> IF ok
                    THEN <<horizontalCenter, verticalCenter,
                           horizontalCenter, verticalCenter>>
                    ELSE NoProbe]

scaleBoxes(coordsArray, scale) ==
    [i \in DOMAIN coordsArray |->
        [j \in 1..4 |-> scale * coordsArray[i][j]]]

updateRowIndex_noShift(rowsAxisCoords, idx) ==
    LET nextRowStartIndex == intersectArrayIndex(rowsAxisCoords)
    IN  [index |-> [idx EXCEPT !.rowStart = nextRowStartIndex],
         ret |-> nextRowStartIndex]

updateRowIndex(rowsAxisCoords, idx) ==
    LET nextRowStartIndex == intersectArrayIndex(rowsAxisCoords)
    IN  [index |-> [idx EXCEPT
                      !.rowEnd = NumAdd(@, NumSub(nextRowStartIndex, idx.rowStart)),
                      !.rowStart = nextRowStartIndex],
         ret |-> nextRowStartIndex]

updateColIndex(colsAxisCoords, idx) ==
    LET nextColStartIndex == intersectArrayIndex(colsAxisCoords)
    IN  [index |-> [idx EXCEPT
                      !.columnEnd = NumAdd(@, NumSub(nextColStartIndex, idx.columnStart)),
                      !.columnStart = nextColStartIndex],
         ret |-> nextColStartIndex]

updateIndices(centerCoords, scale, idx, rmap, cmap) ==
    LET rowsAxisCoords ==
            withProbe(scaleBoxes(createCoordsArray(rows, rmap), scale), centerCoords)
        colsAxisCoords ==
            withProbe(scaleBoxes(createCoordsArray(cols, cmap), scale), centerCoords)
        r == updateRowIndex(rowsAxisCoords, idx)
        c == updateColIndex(colsAxisCoords, r.index)
    IN  [index |-> c.index, row |-> r.ret, col |-> c.ret]

destCoord_rowLeft(row, col, rmap, cmap) ==
    <<cmap[cols[col]][1], rmap[rows[row]][1]>>

\* [destCoordX, destCoordY]: the left edge of the column's cached box and
\* the top edge of the row's (lines 92-95).
destCoord(row, col, rmap, cmap) ==
    <<cmap[cols[col]][1], rmap[rows[row]][2]>>

\* ---------------------------------------------------------------- inputs
\* event.distance of a drag move.
Distances ==
    {[x |-> 0 - 3, y |-> 0 - 3], [x |-> 5, y |-> 5], [x |-> 0, y |-> 10],
     [x |-> 20, y |-> 0]}

\* drag.element.nativeElement.getBoundingClientRect(): the element covers two
\* rows of one column of the live grid.
ElRects(g) ==
    {<<ColLeft(g, c), RowTop(r), ColLeft(g, c + 1), RowTop(r + 2)>> :
        r \in 1..(maxRowIndex - 1), c \in 1..maxColIndex}

NoLocals ==
    [left |-> 0, top |-> 0, scale |-> 1, center |-> NoProbe,
     row |-> NaN, col |-> NaN, pos |-> [x |-> 0, y |-> 0]]

EmptyMap == [id \in {} |-> NoProbe]

\* ------------------------------------------------------------ ResolveSpec
Intervals == {iv \in (0..MaxCoord) \X (0..MaxCoord) : iv[1] < iv[2]}

\* n tracks ordered along the axis, interiors disjoint (neighbours may touch).
TrackLayouts(n) ==
    {t \in [1..n -> Intervals] : \A i \in 1..(n - 1) : t[i][2] <= t[i + 1][1]}

TrackBox(axis, iv) ==
    IF axis = "row" THEN <<0, iv[1], 2, iv[2]>> ELSE <<iv[1], 0, iv[2], 2>>

\* The query point as [along, across] the axis.
QueryPoints == ((0 - 1)..(MaxCoord + 1)) \X ((0 - 1)..3)

ProbeBox(axis, pt) ==
    IF axis = "row" THEN <<pt[2], pt[1], pt[2], pt[1]>>
    ELSE <<pt[1], pt[2], pt[1], pt[2]>>

QIdle ==
    /\ q_pc = "off"
    /\ q_axis = "row"
    /\ q_ids = <<>>
    /\ q_map = EmptyMap
    /\ q_point = <<0, 0>>
    /\ q_out = NaN

\* ------------------------------------------------------------------ Init
\* The component as constructed (field initialisers, lines 38-61).
WidgetInit ==
    /\ phase = "constructed"
    /\ dragEnded = FALSE
    /\ pos = [x |-> 0, y |-> 0]
    /\ index = [rowStart |-> Fin(1), rowEnd |-> Fin(3),
                columnStart |-> Fin(1), columnEnd |-> Fin(1)]
    /\ readyToAnimation = FALSE
    /\ rowsCoordsMap = EmptyMap
    /\ colsCoordsMap = EmptyMap
    /\ frames = 0
    /\ observing = FALSE
    /\ timer = 0
    /\ dragging = FALSE
    /\ lastOp = "constructor"
    /\ locals = NoLocals
    /\ fault = FALSE
    /\ burst = 0
    /\ missed = FALSE
    /\ quiet = 0

Init ==
    /\ WidgetInit
    /\ geom \in Layouts
    /\ QIdle

\* --------------------------------------------------------------- actions
\* ngAfterViewInit (lines 63-69): observe the container, measure rows and
\* columns, subscribe the debounced re-measurement, start the frame loop
\* (the first animationLoop() call registers a frame callback and returns,
\* readyToAnimation being false).
ngAfterViewInit ==
    /\ phase = "constructed"
    /\ phase' = "live"
    /\ observing' = TRUE
    /\ rowsCoordsMap' = calcAxisCoords(rowsCoordsMap, colsCoordsMap, geom).rows
    /\ colsCoordsMap' = calcAxisCoords(rowsCoordsMap, colsCoordsMap, geom).cols
    /\ frames' = frames + 1
    /\ lastOp' = "ngAfterViewInit"
    /\ locals' = NoLocals
    /\ fault' = FALSE
    /\ UNCHANGED <<dragEnded, pos, index, readyToAnimation, timer, geom,
                   dragging, burst, missed, quiet, qvars>>

\* What the frame callback does after it has registered its successor
\* (lines 73-75).
frameBody_noGuard(ready, ended) ==
    [dragEnded |-> TRUE, readyToAnimation |-> FALSE]

frameBody(ready, ended) ==
    IF ~ready
    THEN [dragEnded |-> ended, readyToAnimation |-> ready]
    ELSE [dragEnded |-> TRUE, readyToAnimation |-> FALSE]

framesAfterTick_lateReschedule(f, ready) == IF ~ready THEN f - 1 ELSE f

\* The callback that runs leaves the registered ones; line 72 registers its
\* successor before anything else.
framesAfterTick(f, ready) == (f - 1) + 1

\* animationLoop (lines 71-76), run as a frame callback: nothing in the
\* component ever cancels it.
animationLoop ==
    /\ frames > 0
    /\ frames' = framesAfterTick(frames, readyToAnimation)
    /\ dragEnded' = frameBody(readyToAnimation, dragEnded).dragEnded
    /\ readyToAnimation' = frameBody(readyToAnimation, dragEnded).readyToAnimation
    /\ lastOp' = "animationLoop"
    /\ locals' = NoLocals
    /\ fault' = FALSE
    /\ UNCHANGED <<phase, pos, index, rowsCoordsMap, colsCoordsMap, observing,
                   timer, geom, dragging, burst, missed, quiet, qvars>>

\* The observed container changes its box (or is first observed): the
\* ResizeObserver callback pushes into resized$ (line 57) and debounceTime
\* (line 67) restarts its wait.
debounceRestart_keep(t) == IF t = 0 THEN DebounceTicks ELSE t

debounceRestart(t) == DebounceTicks

resized ==
    /\ observing
    /\ burst < MaxBurst
    /\ \E g \in Layouts : geom' = g
    /\ timer' = debounceRestart(timer)
    /\ burst' = burst + 1
    /\ quiet' = 0
    /\ lastOp' = "resized"
    /\ locals' = NoLocals
    /\ fault' = FALSE
    /\ UNCHANGED <<phase, dragEnded, pos, index, readyToAnimation,
                   rowsCoordsMap, colsCoordsMap, frames, observing, dragging,
                   missed, qvars>>

\* One clock tick of a pending debounce wait that does not end it.
timePasses ==
    /\ timer > 1
    /\ timer' = timer - 1
    /\ quiet' = quiet + 1
    /\ UNCHANGED <<phase, dragEnded, pos, index, readyToAnimation,
                   rowsCoordsMap, colsCoordsMap, frames, observing, geom,
                   dragging, lastOp, locals, fault, burst, missed, qvars>>

\* The subscriber of the debounced stream (line 67).
onDebounced_all(rmap, cmap, g) == calcAxisCoords(rmap, cmap, g)

onDebounced_rowsOnly(rmap, cmap, g) ==
    [rows |-> calcRowsAxisCoords(rmap, g), cols |-> cmap]

onDebounced(rmap, cmap, g) ==
    [rows |-> rmap, cols |-> calcColsAxisCoords(cmap, g)]

\* The last tick of the wait: debounceTime emits and the subscriber
\* re-measures the columns. The subscription is never unsubscribed, so
\* this is not guarded by the lifecycle.
debounceFire ==
    /\ timer = 1
    /\ timer' = 0
    /\ quiet' = 0
    /\ burst' = 0
    /\ rowsCoordsMap' = onDebounced(rowsCoordsMap, colsCoordsMap, geom).rows
    /\ colsCoordsMap' = onDebounced(rowsCoordsMap, colsCoordsMap, geom).cols
    /\ lastOp' = "calcColsAxisCoords"
    /\ locals' = NoLocals
    /\ fault' = FALSE
    /\ UNCHANGED <<phase, dragEnded, pos, index, readyToAnimation, frames,
                   observing, geom, dragging, missed, qvars>>

dragStarted_keepEnded ==
    /\ phase = "live"
    /\ ~dragging
    /\ dragging' = TRUE
    /\ pos' = [x |-> 0, y |-> 0]
    /\ lastOp' = "dragStarted"
    /\ locals' = NoLocals
    /\ fault' = FALSE
    /\ UNCHANGED <<phase, dragEnded, index, readyToAnimation, rowsCoordsMap,
                   colsCoordsMap, frames, observing, timer, geom, burst, missed,
                   quiet, qvars>>

\* dragStarted (lines 78-83).
dragStarted ==
    /\ phase = "live"
    /\ ~dragging
    /\ dragging' = TRUE
    /\ pos' = [x |-> 0, y |-> 0]
    /\ dragEnded' = FALSE
    /\ lastOp' = "dragStarted"
    /\ locals' = NoLocals
    /\ fault' = FALSE
    /\ UNCHANGED <<phase, index, readyToAnimation, rowsCoordsMap,
                   colsCoordsMap, frames, observing, timer, geom, burst, missed,
                   quiet, qvars>>

dragMoved_accumulate ==
    /\ phase = "live"
    /\ dragging
    /\ \E distance \in Distances :
        pos' = [x |-> pos.x + distance.x, y |-> pos.y + distance.y]
    /\ lastOp' = "dragMoved"
    /\ locals' = NoLocals
    /\ fault' = FALSE
    /\ UNCHANGED <<phase, dragEnded, index, readyToAnimation, rowsCoordsMap,
                   colsCoordsMap, frames, observing, timer, geom, dragging,
                   burst, missed, quiet, qvars>>

\* dragMoved (lines 105-107).
dragMoved ==
    /\ phase = "live"
    /\ dragging
    /\ \E distance \in Distances : pos' = distance
    /\ lastOp' = "dragMoved"
    /\ locals' = NoLocals
    /\ fault' = FALSE
    /\ UNCHANGED <<phase, dragEnded, index, readyToAnimation, rowsCoordsMap,
                   colsCoordsMap, frames, observing, timer, geom, dragging,
                   burst, missed, quiet, qvars>>

\* dragDropped (lines 85-103). updateIndices writes the index before the
\* destination lookup; with a row or column of Infinity the lookup
\* (this.cols[col - 1] is undefined, Map.get gives undefined, [0] of it
\* throws) ends the handler before pos and readyToAnimation are written;
\* so does any other row or column that is no position of rows / cols.
dragDropped ==
    /\ phase = "live"
    /\ dragging
    /\ dragging' = FALSE
    /\ \E el \in ElRects(geom) :
        \E c \in {calcCenter(el, index, pos)} :
        \E u \in {updateIndices(c.center, c.scale, index, rowsCoordsMap,
                                colsCoordsMap)} :
        LET \* this.cols[col - 1] and this.rows[row - 1] are track ids
            found == /\ IsFin(u.row) /\ u.row.val \in DOMAIN rows
                     /\ IsFin(u.col) /\ u.col.val \in DOMAIN cols
        IN  /\ index' = u.index
            /\ locals' = [left |-> c.left, top |-> c.top, scale |-> c.scale,
                          center |-> c.center, row |-> u.row, col |-> u.col,
                          pos |-> pos]
            /\ fault' = ~found
            /\ missed' = (missed \/ ~IsFin(u.row) \/ ~IsFin(u.col))
            /\ pos' = IF found
                      THEN [x |-> c.left + pos.x
                                  - destCoord(u.row.val, u.col.val,
                                              rowsCoordsMap, colsCoordsMap)[1],
                            y |-> c.top + pos.y
                                  - destCoord(u.row.val, u.col.val,
                                              rowsCoordsMap, colsCoordsMap)[2]]
                      ELSE pos
            /\ readyToAnimation' = IF found THEN TRUE ELSE readyToAnimation
    /\ lastOp' = "dragDropped"
    /\ UNCHANGED <<phase, dragEnded, rowsCoordsMap, colsCoordsMap, frames,
                   observing, timer, geom, burst, quiet, qvars>>

\* ngOnDestroy (lines 188-190): disconnects the resize observer, nothing else.
ngOnDestroy ==
    /\ phase = "live"
    /\ phase' = "destroyed"
    /\ observing' = FALSE
    /\ lastOp' = "ngOnDestroy"
    /\ locals' = NoLocals
    /\ fault' = FALSE
    /\ UNCHANGED <<dragEnded, pos, index, readyToAnimation, rowsCoordsMap,
                   colsCoordsMap, frames, timer, geom, dragging, burst, missed,
                   quiet, qvars>>

Next ==
    \/ ngAfterViewInit
    \/ animationLoop
    \/ resized
    \/ timePasses
    \/ debounceFire
    \/ dragStarted
    \/ dragMoved
    \/ dragDropped
    \/ ngOnDestroy

Spec == Init /\ [][Next]_vars

\* The browser runs a registered frame callback: a callback that stays
\* registered (line 72) is eventually called.
FairSpec == Spec /\ WF_vars(animationLoop)

\* ------------------------------------------------------------ ResolveSpec
\* Index resolution as updateIndices does it for one axis (lines 161-170 and
\* 175 / 182): the coordinate array of the tracks, the probe box written to
\* slot 0, intersectArrayIndex.
resolveIndex(idArray, coordsMap, centerCoords) ==
    intersectArrayIndex(withProbe(createCoordsArray(idArray, coordsMap),
                                  centerCoords))

QInit ==
    /\ WidgetInit
    /\ geom = 1
    /\ q_pc = "input"
    /\ q_axis \in {"row", "col"}
    /\ \E n \in 1..MaxTracks :
        /\ q_ids = [i \in 1..n |-> <<"trk", i>>]
        /\ \E t \in TrackLayouts(n) :
            q_map = [id \in {<<"trk", i>> : i \in 1..n} |->
                        TrackBox(q_axis, t[id[2]])]
    /\ q_point \in QueryPoints
    /\ q_out = NaN

Resolve ==
    /\ q_pc = "input"
    /\ q_pc' = "done"
    /\ q_out' = resolveIndex(q_ids, q_map, ProbeBox(q_axis, q_point))
    /\ UNCHANGED <<wvars, q_axis, q_ids, q_map, q_point>>

QNext == Resolve

ResolveSpec == QInit /\ [][QNext]_vars

\* ================================================================ claims
QProbe == ProbeBox(q_axis, q_point)

StrictlyInside(box, probe) ==
    /\ box[1] < probe[1] /\ probe[1] < box[3]
    /\ box[2] < probe[2] /\ probe[2] < box[4]

\* C1: for ordered, non-overlapping track boxes and a query point strictly
\* inside the box of track k, index resolution returns exactly k.
C1_InsideResolvesToTrack ==
    q_pc = "done" =>
        \A k \in DOMAIN q_ids :
            StrictlyInside(q_map[q_ids[k]], QProbe) => q_out = Fin(k)

\* Three tracks, the first two touching, the point strictly inside the last.
C1_Witness ==
    /\ q_pc = "done"
    /\ Len(q_ids) = 3
    /\ q_map[q_ids[1]][3] >= q_map[q_ids[2]][1]
    /\ q_map[q_ids[1]][4] >= q_map[q_ids[2]][2]
    /\ StrictlyInside(q_map[q_ids[3]], QProbe)
    /\ q_out = Fin(3)

\* The point lies on the edge that tracks k and k+1 share.
OnSharedBoundary(k) ==
    LET a == q_map[q_ids[k]]
        b == q_map[q_ids[k + 1]]
    IN  /\ boxOverlap(a, QProbe) /\ boxOverlap(b, QProbe)
        /\ IF q_axis = "row" THEN a[4] = b[2] /\ QProbe[2] = a[4]
           ELSE a[3] = b[1] /\ QProbe[1] = a[3]

\* C2: a query point on the boundary shared by tracks k and k+1 resolves to
\* the smaller index k, and the result is decided by the probe's pairs alone:
\* it is the least track whose box holds the point, whatever other boxes touch.
C2_BoundaryResolvesToSmaller ==
    q_pc = "done" =>
        /\ \A k \in 1..(Len(q_ids) - 1) : OnSharedBoundary(k) => q_out = Fin(k)
        /\ q_out = MathMin({k \in DOMAIN q_ids : boxOverlap(q_map[q_ids[k]], QProbe)})

\* Tracks 1 and 2 touch, the point is on the boundary of tracks 2 and 3.
C2_Witness ==
    /\ q_pc = "done"
    /\ Len(q_ids) = 3
    /\ boxOverlap(q_map[q_ids[1]], q_map[q_ids[2]])
    /\ OnSharedBoundary(2)
    /\ q_out = Fin(2)

\* C3: a drop whose point is outside every track box of an axis is reported
\* as out of range, and the value resolution gave is not used as a track
\* index: the grid index keeps track indices.
C3_OutOfRangeNotUsedAsIndex ==
    (lastOp = "dragDropped" /\ (~IsFin(locals.row) \/ ~IsFin(locals.col))) =>
        (IsFin(index.rowStart) /\ IsFin(index.columnStart))

InRange(a, lo, hi) == IsFin(a) /\ lo <= a.val /\ a.val <= hi

\* C4 as stated: while every drop has resolved, rowStart and rowEnd are in
\* [1, N] and columnStart and columnEnd are in [1, M].
C4_AllInTrackRange ==
    ~missed =>
        /\ InRange(index.rowStart, 1, maxRowIndex)
        /\ InRange(index.rowEnd, 1, maxRowIndex)
        /\ InRange(index.columnStart, 1, maxColIndex)
        /\ InRange(index.columnEnd, 1, maxColIndex)

\* C4 amended: while every drop has resolved, rowStart is in [1, N],
\* columnStart and columnEnd are in [1, M], and rowEnd, which keeps the
\* initial span of 2 above rowStart, is in [3, N + 2].
C4_StartsInTrackRange ==
    ~missed =>
        /\ InRange(index.rowStart, 1, maxRowIndex)
        /\ InRange(index.rowEnd, 3, maxRowIndex + 2)
        /\ InRange(index.columnStart, 1, maxColIndex)
        /\ InRange(index.columnEnd, 1, maxColIndex)

\* A resolved drop onto the last row and the last column.
C4_Witness ==
    /\ lastOp = "dragDropped"
    /\ ~missed
    /\ index.rowStart = Fin(maxRowIndex)
    /\ index.rowEnd = Fin(maxRowIndex + 2)
    /\ index.columnStart = Fin(maxColIndex)
    /\ index.columnEnd = Fin(maxColIndex)

\* A step of dragDropped: the only handler that ends the gesture.
DropStep == dragging /\ ~dragging'

\* C5: every drop leaves rowEnd - rowStart and columnEnd - columnStart as
\* they were, and rowStart and columnStart become the resolved row and column.
C5_SpanPreserved ==
    [][DropStep =>
        /\ NumSub(index'.rowEnd, index'.rowStart)
            = NumSub(index.rowEnd, index.rowStart)
        /\ NumSub(index'.columnEnd, index'.columnStart)
            = NumSub(index.columnEnd, index.columnStart)
        /\ index'.rowStart = locals'.row
        /\ index'.columnStart = locals'.col]_vars

\* The grid of the end-to-end example: rows at y [0,10], [10,20], [20,30],
\* columns at x [0,5], [5,15], each spanning the grid on the other axis.
ExampleGrid ==
    /\ \A k \in 1..3 :
        rowsCoordsMap[rows[k]] = <<0, 10 * (k - 1), GridRight(1), 10 * k>>
    /\ colsCoordsMap[cols[1]] = <<0, 0, 5, GridBottom>>
    /\ colsCoordsMap[cols[2]] = <<5, 0, 15, GridBottom>>

\* The centre the handler computed is the point (x, y).
CenterIs(l, x, y) ==
    l.center = <<l.scale * x, l.scale * y, l.scale * x, l.scale * y>>

InitialIndex ==
    [rowStart |-> Fin(1), rowEnd |-> Fin(3),
     columnStart |-> Fin(1), columnEnd |-> Fin(1)]

\* C6: on the example grid a drop with centre (7, 12) resolves to row 2 and
\* column 2, and the index {1, 3, 1, 1} becomes {2, 4, 2, 2}.
C6_EndToEndDrop ==
    [][(DropStep /\ phase # "constructed" /\ ExampleGrid
            /\ CenterIs(locals', 7, 12) /\ index = InitialIndex) =>
        /\ locals'.row = Fin(2)
        /\ locals'.col = Fin(2)
        /\ index' = [rowStart |-> Fin(2), rowEnd |-> Fin(4),
                     columnStart |-> Fin(2), columnEnd |-> Fin(2)]]_vars

C6_Witness ==
    /\ lastOp = "dragDropped"
    /\ ExampleGrid
    /\ CenterIs(locals, 7, 12)
    /\ locals.row = Fin(2) /\ locals.col = Fin(2)
    /\ index = [rowStart |-> Fin(2), rowEnd |-> Fin(4),
                columnStart |-> Fin(2), columnEnd |-> Fin(2)]
    /\ ~fault

MeasuredCols(g) == [id \in Range(cols) |-> getBoundingClientRect(id, g)]
MeasuredRows(g) == [id \in Range(rows) |-> getBoundingClientRect(id, g)]

\* C7: a burst of notifications is pending exactly while a wait is running;
\* every notification restarts the wait; the burst is closed by one column
\* re-measurement, taken when a full debounce interval has passed since the
\* last notification, of the geometry as of that notification; and nothing
\* re-measures the columns without a burst to close.
C7_Debounce ==
    /\ []((burst > 0) <=> (timer > 0))
    /\ [][/\ (burst' > burst) => (timer' = DebounceTicks /\ quiet' = 0)
          /\ (burst > 0 /\ burst' = 0) =>
                /\ quiet + 1 = DebounceTicks
                /\ lastOp' = "calcColsAxisCoords"
                /\ colsCoordsMap' = MeasuredCols(geom)
          /\ (phase # "constructed" /\ colsCoordsMap' # colsCoordsMap) =>
                (burst > 0 /\ burst' = 0)]_vars

\* Two notifications, the second with a new width, closed by one re-measurement.
C7_Witness ==
    /\ lastOp = "calcColsAxisCoords"
    /\ burst = 0 /\ timer = 0
    /\ phase = "live"
    /\ colsCoordsMap = MeasuredCols(geom)
    /\ colsCoordsMap # MeasuredCols(1)

\* C8: after ngOnDestroy no frame callback of the animation loop executes.
C8_NoFrameAfterDestroy == ~(phase = "destroyed" /\ lastOp = "animationLoop")

\* C9: after ngOnDestroy no column re-measurement executes.
C9_NoRemeasureAfterDestroy ==
    ~(phase = "destroyed" /\ lastOp = "calcColsAxisCoords")

\* C10: the rows are measured by the initial refresh and by nothing else: no
\* step after ngAfterViewInit changes the row cache, while the debounced
\* resize does re-measure the columns.
C10_RowsMeasuredOnce ==
    [][IF phase = "constructed"
       THEN rowsCoordsMap' = MeasuredRows(geom)
       ELSE rowsCoordsMap' = rowsCoordsMap]_vars

\* After a resize to another width and its debounce: columns fresh, rows as
\* first measured.
C10_Witness ==
    /\ lastOp = "calcColsAxisCoords"
    /\ phase = "live"
    /\ dragging
    /\ colsCoordsMap = MeasuredCols(geom)
    /\ rowsCoordsMap # MeasuredRows(geom)

\* Running the refresh over idArray once more, with the elements' boxes as
\* they were for the first run, gives back the map of the first run.
RefreshTwiceSame(idArray, coordsMap, g) ==
    LET once == updateCoordsMap(idArray, coordsMap, g)
        twice == updateCoordsMap(idArray, once, g)
    IN  /\ DOMAIN twice = DOMAIN once
        /\ \A id \in DOMAIN once : twice[id] = once[id]
        /\ twice = once

\* C11: the refresh is idempotent: from every cache the widget can hold, and
\* for every layout, a second updateCoordsMap over the same ids leaves the
\* cache of the first run (same keys, same box per id); and a cache that a
\* refresh has just written is not changed by refreshing it again.
C11_RefreshIdempotent ==
    /\ \A g \in Layouts :
        /\ RefreshTwiceSame(rows, rowsCoordsMap, g)
        /\ RefreshTwiceSame(cols, colsCoordsMap, g)
    /\ lastOp = "calcColsAxisCoords"
        => calcColsAxisCoords(colsCoordsMap, geom) = colsCoordsMap

\* The columns have been measured by ngAfterViewInit and again by a debounced
\* refresh at the layout of the first measurement.
C11_Witness ==
    /\ lastOp = "calcColsAxisCoords"
    /\ colsCoordsMap = MeasuredCols(geom)
    /\ rowsCoordsMap = MeasuredRows(geom)
    /\ DOMAIN colsCoordsMap = Range(cols)

\* C12: a drop whose resolution misses on an axis faults and leaves the grid
\* index, the drag offset and readyToAnimation as they were before the drop.
C12_FaultLeavesStateUntouched ==
    [][(DropStep /\ fault')
       => /\ index' = index
          /\ pos' = pos
          /\ readyToAnimation' = readyToAnimation]_vars

StartStep == ~dragging /\ dragging'

\* C13: dragStarted, from whatever state it is called in, leaves pos = (0,0)
\* and dragEnded = FALSE, and changes neither the grid index nor the caches.
C13_DragStartResets ==
    [][StartStep
       => /\ pos' = [x |-> 0, y |-> 0]
          /\ dragEnded' = FALSE
          /\ index' = index
          /\ rowsCoordsMap' = rowsCoordsMap
          /\ colsCoordsMap' = colsCoordsMap]_vars

\* A drag started after an earlier drag was dropped elsewhere and settled.
C13_Witness ==
    /\ lastOp = "dragStarted"
    /\ dragging
    /\ pos = [x |-> 0, y |-> 0]
    /\ ~dragEnded
    /\ index # InitialIndex

MoveStep == lastOp' = "dragMoved" /\ timer' = timer

\* C14: dragMoved replaces pos by the reported distance and does nothing
\* else: the grid index, both caches, dragEnded and readyToAnimation keep
\* their values.
C14_DragMoveOnlySetsPos ==
    [][MoveStep
       => /\ pos' \in Distances
          /\ index' = index
          /\ rowsCoordsMap' = rowsCoordsMap
          /\ colsCoordsMap' = colsCoordsMap
          /\ dragEnded' = dragEnded
          /\ readyToAnimation' = readyToAnimation]_vars

\* A move in a drag that began before the frame tick consumed the flag of
\* the previous drop.
C14_Witness ==
    /\ lastOp = "dragMoved"
    /\ dragging
    /\ pos = [x |-> 20, y |-> 0]
    /\ readyToAnimation
    /\ index # InitialIndex

\* C15: after a successful drop that resolved to (row, col), pos is
\* (left + previous x - cached left edge of column col,
\*  top + previous y - cached top edge of row row), the previous offset
\* being the last distance of dragMoved or (0,0), and readyToAnimation is set.
C15_DropOffset ==
    (lastOp = "dragDropped" /\ ~fault)
    => /\ IsFin(locals.row) /\ locals.row.val \in DOMAIN rows
       /\ IsFin(locals.col) /\ locals.col.val \in DOMAIN cols
       /\ locals.pos \in Distances \cup {[x |-> 0, y |-> 0]}
       /\ pos.x = locals.left + locals.pos.x
                  - colsCoordsMap[cols[locals.col.val]][1]
       /\ pos.y = locals.top + locals.pos.y
                  - rowsCoordsMap[rows[locals.row.val]][2]
       /\ readyToAnimation

\* A drop after a move by (5,5) that snapped to row 2.
C15_Witness ==
    /\ lastOp = "dragDropped"
    /\ ~fault
    /\ locals.pos = [x |-> 5, y |-> 5]
    /\ locals.row = Fin(2)
    /\ pos # [x |-> 0, y |-> 0]
    /\ readyToAnimation

FrameStep == lastOp' = "animationLoop" /\ timer' = timer

\* C16: a frame tick that finds readyToAnimation set sets dragEnded and
\* clears the flag; a frame tick that finds it clear changes no widget state;
\* and, frame ticks being fair, a set flag is always followed by a state
\* with dragEnded set and the flag consumed.
C16_Settling ==
    /\ [][FrameStep
          => IF readyToAnimation
             THEN /\ dragEnded' = TRUE
                  /\ readyToAnimation' = FALSE
                  /\ UNCHANGED <<pos, index, rowsCoordsMap, colsCoordsMap>>
             ELSE UNCHANGED <<dragEnded, readyToAnimation, pos, index,
                              rowsCoordsMap, colsCoordsMap>>]_vars
    /\ (readyToAnimation ~> (dragEnded /\ ~readyToAnimation))

\* Settled: the tick after a successful drop has run, no drag is going on.
C16_Witness ==
    /\ lastOp = "animationLoop"
    /\ phase = "live"
    /\ ~dragging
    /\ dragEnded
    /\ ~readyToAnimation
    /\ index # InitialIndex

\* C17: from ngAfterViewInit until ngOnDestroy exactly one frame callback is
\* registered.
C17_OneFrameRegistered == phase = "live" => frames = 1

\* A tick has run in mid-drag and its successor is the one registration.
C17_Witness ==
    /\ phase = "live"
    /\ lastOp = "animationLoop"
    /\ dragging
    /\ frames = 1

\* C18: between dragStarted and dragDropped dragEnded is false.
C18_NotEndedWhileDragging == dragging => ~dragEnded

OnOwnCell ==
    /\ IsFin(index.rowStart) /\ IsFin(index.rowEnd)
    /\ IsFin(index.columnStart)
    /\ index.rowStart.val \in 1..(maxRowIndex - 1)
    /\ index.columnStart.val \in 1..maxColIndex
    /\ index.rowEnd.val = index.rowStart.val + 2
    /\ locals'.left = ColLeft(geom, index.columnStart.val)
    /\ locals'.top = RowTop(index.rowStart.val)

\* C20: a drop with pos = (0,0) of an element on its own cell leaves the
\* grid index as it is and pos = (0,0).
C20_ZeroOffsetDropIsNoOp ==
    [][(DropStep /\ pos = [x |-> 0, y |-> 0] /\ OnOwnCell)
       => /\ index' = index
          /\ pos' = [x |-> 0, y |-> 0]]_vars

\* C20 for caches that hold the live boxes.
C20_ZeroOffsetDropFreshCache ==
    [][(/\ DropStep
        /\ pos = [x |-> 0, y |-> 0]
        /\ OnOwnCell
        /\ rowsCoordsMap = MeasuredRows(geom)
        /\ colsCoordsMap = MeasuredCols(geom))
       => /\ index' = index
          /\ pos' = [x |-> 0, y |-> 0]
          /\ ~fault'
          /\ readyToAnimation']_vars

\* An element sitting on rows 2..3 of column 2 dropped where it is.
C20_Witness ==
    /\ lastOp = "dragDropped"
    /\ ~fault
    /\ locals.pos = [x |-> 0, y |-> 0]
    /\ pos = [x |-> 0, y |-> 0]
    /\ index.rowStart = Fin(2) /\ index.columnStart = Fin(2)
    /\ locals.left = ColLeft(geom, 2) /\ locals.top = RowTop(2)
    /\ locals.row = Fin(2) /\ locals.col = Fin(2)
    /\ rowsCoordsMap = MeasuredRows(geom)
    /\ colsCoordsMap = MeasuredCols(geom)

====
